---------------------------- MODULE Spec2Model ----------------------------
(***************************************************************************)
(* A model of optifind.py, the OptiFind wrapper around SoFiA 2: parameter  *)
(* file parsing, axis resolution, the source loop (region, per-run         *)
(* parameter file, external run, clean-up) and the catalogue merge.        *)
(*                                                                         *)
(* Strings are sequences of one-symbol strings.  A symbol is a character,  *)
(* or a whole word that contains none of the characters the program looks  *)
(* at (white space, "#", "=", "/", "_", "-"), such as "output.filename".   *)
(* Pixel coordinates are rationals with denominator PixDen, held as their  *)
(* numerators.  Axis indices are 0-based as in the program; TLA+ sequences *)
(* are 1-based, so axis i of the program is element i + 1.                 *)
(***************************************************************************)
EXTENDS Integers, Sequences, FiniteSets, TLC

VARIABLES
    pc,           \* position of the script
    exit_code,    \* process exit status, -1 while running
    parFile,      \* lines of the parameter file (sys.argv[1])
    fpos,         \* number of parameter file lines consumed
    pars,         \* the template settings (insertion-ordered dict)
    axis_type,    \* wcs.axis_type_names
    axis_size,    \* wcs.array_shape[::-1]
    i,            \* loop index of the axis loop
    axes,         \* [spatial 1, spatial 2, spectral] axis indices
    sources,      \* rows of the input catalogue, each with its pixel position
    radius_spat,  \* int(sys.argv[3])
    radius_spec,  \* int(sys.argv[4])
    k,            \* number of sources the loop has finished
    region,       \* x_min, x_max, y_min, y_max, z_min, z_max of the current source
    pars_copy,    \* per-run settings
    cat_names,    \* output names of the runs
    tmp,          \* sofia_optifind_parameter_file.tmp
    invoked,      \* runs of the external finder, with their exit status
    fs,           \* per-source catalogue files in the output directory
    m,            \* number of catalogues the merge has read
    reads,        \* names of the catalogues the merge has opened
    header,       \* merge: header text
    content,      \* merge: body text
    need_header,  \* merge: header not yet captured
    merged        \* optifind_merged_catalogue.txt

vars == <<pc, exit_code, parFile, fpos, pars, axis_type, axis_size, i, axes,
          sources, radius_spat, radius_spec, k, region, pars_copy, cat_names,
          tmp, invoked, fs, m, reads, header, content, need_header, merged>>

-----------------------------------------------------------------------------
(* Strings *)

WhiteSpace == {" ", "\t", "\n"}

RECURSIVE LStrip(_)
LStrip(s) ==
    IF s # <<>> /\ Head(s) \in WhiteSpace THEN LStrip(Tail(s)) ELSE s

RECURSIVE RStrip(_)
RStrip(s) ==
    IF s # <<>> /\ s[Len(s)] \in WhiteSpace
    THEN RStrip(SubSeq(s, 1, Len(s) - 1))
    ELSE s

\* str.strip()
Strip(s) == RStrip(LStrip(s))

\* c in s
Contains(s, c) == \E j \in 1..Len(s) : s[j] = c

\* s.find(c): 0-based index of the first c, -1 when there is none
Find(s, c) ==
    IF Contains(s, c)
    THEN (CHOOSE j \in 1..Len(s) : s[j] = c /\ \A h \in 1..(j - 1) : s[h] # c) - 1
    ELSE -1

\* s.split(c, 1)[0] and s.split(c, 1)[1], for s containing c
SplitHead(s, c) == SubSeq(s, 1, Find(s, c))
SplitTail(s, c) == SubSeq(s, Find(s, c) + 2, Len(s))

\* s.replace(a, b) for single characters
RECURSIVE Replace(_, _, _)
Replace(s, a, b) ==
    IF s = <<>> THEN <<>>
    ELSE <<IF Head(s) = a THEN b ELSE Head(s)>> \o Replace(Tail(s), a, b)

\* str.isspace()
IsSpace(s) == s # <<>> /\ \A j \in 1..Len(s) : s[j] \in WhiteSpace

-----------------------------------------------------------------------------
(* Dictionaries: a sequence of entries in insertion order *)

DictHas(d, key) == \E j \in 1..Len(d) : d[j].key = key

DictGet(d, key) == d[CHOOSE j \in 1..Len(d) : d[j].key = key].value

\* a store that appends an entry for every assignment
DictSet_append(d, key, value) == Append(d, [key |-> key, value |-> value])

\* d[key] = value: an existing key keeps its place
DictSet(d, key, value) ==
    IF DictHas(d, key)
    THEN [j \in 1..Len(d) |->
             IF d[j].key = key THEN [key |-> key, value |-> value] ELSE d[j]]
    ELSE Append(d, [key |-> key, value |-> value])

-----------------------------------------------------------------------------
(* Reading the parameter file *)

\* the condition under which a line makes a setting
IsSetting(line) ==
    LET s == Strip(line)
    IN  s # <<>> /\ s[1] # "#" /\ Contains(s, "=")

LineKey(line) == Strip(SplitHead(Strip(line), "="))

LineValue(line) ==
    LET value == Strip(SplitTail(Strip(line), "="))
    IN  IF value # <<>>
        THEN IF Find(value, "#") < 0
             THEN value
             ELSE Strip(SplitHead(value, "#"))
        ELSE <<>>

\* the body of the loop over the lines of the file
ParseLine(d, line) ==
    IF IsSetting(line) THEN DictSet(d, LineKey(line), LineValue(line)) ELSE d

RECURSIVE LoadPars(_, _)
LoadPars(d, lines) ==
    IF lines = <<>> THEN d ELSE LoadPars(ParseLine(d, Head(lines)), Tail(lines))


-----------------------------------------------------------------------------
(* Program positions and the exits *)

KeyData      == <<"input.data">>
KeyRegion    == <<"input.region">>
KeyFilename  == <<"output.filename">>
KeyDirectory == <<"output.directory">>
KeyCatASCII  == <<"output.writeCatASCII">>
KeyOffset    == <<"parameter.offset">>

NoFile == [exists |-> FALSE, text |-> <<>>]

File(text) == [exists |-> TRUE, text |-> text]

parVars   == <<parFile, fpos>>
axisVars  == <<axis_type, axis_size, i, axes>>
argVars   == <<sources, radius_spat, radius_spec>>
loopVars  == <<k, region, pars_copy, cat_names, tmp, invoked, fs>>
mergeVars == <<m, reads, header, content, need_header, merged>>

\* exit_error(message): sys.exit(1)
exit_error == pc' = "exit" /\ exit_code' = 1

\* an exception nothing catches ends the interpreter with status 1
Uncaught == pc' = "exit" /\ exit_code' = 1

-----------------------------------------------------------------------------
(* Read parameter file *)

ParLine ==
    /\ pc = "readpars"
    /\ fpos < Len(parFile)
    /\ pars' = ParseLine(pars, parFile[fpos + 1])
    /\ fpos' = fpos + 1
    /\ UNCHANGED <<pc, exit_code, parFile, axisVars, argVars, loopVars, mergeVars>>

ParsCheck ==
    /\ pc = "readpars"
    /\ fpos = Len(parFile)
    /\ IF Len(pars) = 0
       THEN exit_error
       ELSE pc' = "wcs" /\ UNCHANGED exit_code
    /\ UNCHANGED <<parVars, pars, axisVars, argVars, loopVars, mergeVars>>

-----------------------------------------------------------------------------
(* Work out spatial and spectral axes *)

Spatial1Types == {"RA", "GLON"}
Spatial2Types == {"DEC", "GLAT"}
SpectralTypes == {"FREQ", "VELO", "VRAD", "VOPT", "FELO"}

naxes == Len(axis_size)

\* the loop body with the first match of a role kept
AssignAxis_firstWins(a, j, type) ==
    IF type \in Spatial1Types THEN (IF a[1] = -1 THEN [a EXCEPT ![1] = j] ELSE a)
    ELSE IF type \in Spatial2Types THEN (IF a[2] = -1 THEN [a EXCEPT ![2] = j] ELSE a)
    ELSE IF type \in SpectralTypes THEN (IF a[3] = -1 THEN [a EXCEPT ![3] = j] ELSE a)
    ELSE a

\* one pass of the loop body for axis index j
AssignAxis(a, j, type) ==
    IF type \in Spatial1Types THEN [a EXCEPT ![1] = j]
    ELSE IF type \in Spatial2Types THEN [a EXCEPT ![2] = j]
    ELSE IF type \in SpectralTypes THEN [a EXCEPT ![3] = j]
    ELSE a

AxisStep ==
    /\ pc = "axes"
    /\ i < naxes
    /\ axes' = AssignAxis(axes, i, axis_type[i + 1])
    /\ i' = i + 1
    /\ UNCHANGED <<pc, exit_code, parVars, pars, axis_type, axis_size, argVars,
                   loopVars, mergeVars>>

AxesUnresolved(a) == a[1] = -1 \/ a[2] = -1 \/ a[3] = -1

AxesCheck ==
    /\ pc = "axes"
    /\ i = naxes
    /\ IF AxesUnresolved(axes)
       THEN exit_error
       ELSE pc' = "catalogue" /\ UNCHANGED exit_code
    /\ UNCHANGED <<parVars, pars, axisVars, argVars, loopVars, mergeVars>>

\* the axes the loop yields for a whole label sequence
RECURSIVE ResolveFrom(_, _, _)
ResolveFrom(a, j, types) ==
    IF j >= Len(types) THEN a
    ELSE ResolveFrom(AssignAxis(a, j, types[j + 1]), j + 1, types)

ResolveAxes(types) == ResolveFrom(<<-1, -1, -1>>, 0, types)

-----------------------------------------------------------------------------
(* Read input catalogue: the checks after the rows are read *)

n_cols == IF sources = <<>> THEN 0 ELSE Len(sources[1].pix) + 1

CatalogueCheck ==
    /\ pc = "catalogue"
    /\ IF Len(sources) = 0 \/ n_cols # naxes + 1
       THEN exit_error
       ELSE pc' = "loop" /\ UNCHANGED exit_code
    /\ UNCHANGED <<parVars, pars, axisVars, argVars, loopVars, mergeVars>>


-----------------------------------------------------------------------------
(* Loop over all sources: the region *)

\* A pixel coordinate is its integer part fl and whether a fraction remains.
Max(a, b) == IF a >= b THEN a ELSE b
Min(a, b) == IF a <= b THEN a ELSE b

PixMinus(p, r) == [fl |-> p.fl - r, frac |-> p.frac]
PixPlus(p, r)  == [fl |-> p.fl + r, frac |-> p.frac]

\* math.floor, math.ceil
Floor(p) == p.fl
Ceil(p)  == IF p.frac THEN p.fl + 1 ELSE p.fl

\* wcs.wcs_world2pix(coord_wld, 0)[0] of source number j (from 1)
coord_pix(j) == sources[j].pix

RegionMin(p, radius) == Max(0, Floor(PixMinus(p, radius)))
RegionMax(p, radius, size) == Min(size - 1, Ceil(PixPlus(p, radius)))

WorkOutRegion(pix) ==
    [x_min |-> RegionMin(pix[axes[1] + 1], radius_spat),
     x_max |-> RegionMax(pix[axes[1] + 1], radius_spat, axis_size[axes[1] + 1]),
     y_min |-> RegionMin(pix[axes[2] + 1], radius_spat),
     y_max |-> RegionMax(pix[axes[2] + 1], radius_spat, axis_size[axes[2] + 1]),
     z_min |-> RegionMin(pix[axes[3] + 1], radius_spec),
     z_max |-> RegionMax(pix[axes[3] + 1], radius_spec, axis_size[axes[3] + 1])]

ComputeRegion ==
    /\ pc = "loop"
    /\ k < Len(sources)
    /\ region' = WorkOutRegion(coord_pix(k + 1))
    /\ pc' = "check"
    /\ UNCHANGED <<exit_code, parVars, pars, axisVars, argVars, k, pars_copy,
                   cat_names, tmp, invoked, fs, mergeVars>>

\* the bounds check with > for >= on the spatial axes
WithinBounds_strict(r) ==
    /\ r.x_max - r.x_min > radius_spat
    /\ r.y_max - r.y_min > radius_spat
    /\ r.z_max - r.z_min >= radius_spec

\* Check if region within bounds
WithinBounds(r) ==
    /\ r.x_max - r.x_min >= radius_spat
    /\ r.y_max - r.y_min >= radius_spat
    /\ r.z_max - r.z_min >= radius_spec

Skip ==
    /\ pc = "check"
    /\ ~WithinBounds(region)
    /\ k' = k + 1
    /\ pc' = "loop"
    /\ UNCHANGED <<exit_code, parVars, pars, axisVars, argVars, region, pars_copy,
                   cat_names, tmp, invoked, fs, mergeVars>>

-----------------------------------------------------------------------------
(* Loop over all sources: the per-run settings *)

Digit == <<"0", "1", "2", "3", "4", "5", "6", "7", "8", "9">>

RECURSIVE Decimal(_)
Decimal(n) ==
    IF n < 10 THEN <<Digit[n + 1]>>
    ELSE Decimal(n \div 10) \o <<Digit[(n % 10) + 1]>>

\* "{:d}".format(n)
FormatInt(n) == IF n < 0 THEN <<"-">> \o Decimal(0 - n) ELSE Decimal(n)

\* "{:d}, {:d}, {:d}, {:d}, {:d}, {:d}".format(...)
RegionText(r) ==
    FormatInt(r.x_min) \o <<",", " ">> \o FormatInt(r.x_max) \o <<",", " ">> \o
    FormatInt(r.y_min) \o <<",", " ">> \o FormatInt(r.y_max) \o <<",", " ">> \o
    FormatInt(r.z_min) \o <<",", " ">> \o FormatInt(r.z_max)

Suffix(id) == <<"_">> \o Replace(Replace(id, " ", "_"), "/", "-")

OutputName(value, id) ==
    IF value # <<>> THEN value \o Suffix(id) ELSE <<"optifind">> \o Suffix(id)

\* pars.copy()
DictCopy(d) == d

\* pars_copy after each of the three overrides
ConfigRegion(d, reg) == DictSet(DictCopy(d), KeyRegion, RegionText(reg))
\* the name derived from the previous run's settings, not from the template
ConfigName_carry(c, id) ==
    DictSet(c, KeyFilename,
            OutputName(DictGet(IF DictHas(pars_copy, KeyFilename) THEN pars_copy ELSE c,
                               KeyFilename), id))

ConfigName(c, id) == DictSet(c, KeyFilename, OutputName(DictGet(c, KeyFilename), id))
ConfigOffset(c) == DictSet(c, KeyOffset, <<"true">>)

BuildConfig ==
    /\ pc = "check"
    /\ WithinBounds(region)
    /\ LET c1 == ConfigRegion(pars, region)
       IN  IF DictHas(c1, KeyFilename)
           THEN LET c2 == ConfigName(c1, sources[k + 1].id)
                IN  /\ cat_names' = Append(cat_names, DictGet(c2, KeyFilename))
                    /\ pars_copy' = ConfigOffset(c2)
                    /\ pc' = "write"
                    /\ UNCHANGED exit_code
           ELSE /\ pars_copy' = c1
                /\ Uncaught
                /\ UNCHANGED cat_names
    /\ UNCHANGED <<parVars, pars, axisVars, argVars, k, region, tmp, invoked, fs,
                   mergeVars>>

-----------------------------------------------------------------------------
(* Loop over all sources: temporary parameter file, run, clean-up *)

RECURSIVE Serialize(_)
Serialize(d) ==
    IF d = <<>> THEN <<>>
    ELSE Head(d).key \o <<"\t", "=", "\t">> \o Head(d).value \o <<"\n">>
         \o Serialize(Tail(d))

WriteTmp ==
    /\ pc = "write"
    /\ tmp' = File(Serialize(pars_copy))
    /\ pc' = "run"
    /\ UNCHANGED <<exit_code, parVars, pars, axisVars, argVars, k, region,
                   pars_copy, cat_names, invoked, fs, mergeVars>>

\* open() or write() raises: open() may already have created the file
WriteTmpFail ==
    /\ pc = "write"
    /\ \E created \in BOOLEAN : tmp' = IF created THEN File(<<>>) ELSE tmp
    /\ exit_error
    /\ UNCHANGED <<parVars, pars, axisVars, argVars, k, region, pars_copy,
                   cat_names, invoked, fs, mergeVars>>

ExitStatusSet == {0, 1}

\* output_dir with its trailing "/"
OutputDir(dir) ==
    IF dir # <<>> /\ dir[Len(dir)] # "/" THEN dir \o <<"/">> ELSE dir

CatPath(dir, name) == OutputDir(dir) \o name \o <<"_cat.txt">>

DirOf(d) == IF DictHas(d, KeyDirectory) THEN DictGet(d, KeyDirectory) ELSE <<>>

PutFile(files, path, file) ==
    [q \in (DOMAIN files) \cup {path} |-> IF q = path THEN file ELSE files[q]]

\* catalogues the external finder may leave behind in a run of the loop
RunCatalogues == {<<>>, <<<<"#", "h", "\n">>, <<"r", "\n">>>>}

\* os.system(sofia ...): blocks until the finder exits, status not looked at
RunFinder ==
    /\ pc = "run"
    /\ tmp.exists
    /\ \E status \in ExitStatusSet :
          invoked' = Append(invoked, [name   |-> DictGet(pars_copy, KeyFilename),
                                      status |-> status])
    /\ \E written \in BOOLEAN, cat \in RunCatalogues :
          fs' = IF written
                THEN PutFile(fs, CatPath(DirOf(pars_copy),
                                         DictGet(pars_copy, KeyFilename)), cat)
                ELSE fs
    /\ pc' = "rm"
    /\ UNCHANGED <<exit_code, parVars, pars, axisVars, argVars, k, region,
                   pars_copy, cat_names, tmp, mergeVars>>

\* the clean-up of a loop that gives up after a failed run
RemoveTmp_stopOnFailure ==
    /\ pc = "rm"
    /\ tmp' = NoFile
    /\ k' = IF invoked[Len(invoked)].status # 0 THEN Len(sources) ELSE k + 1
    /\ pc' = "loop"
    /\ UNCHANGED <<exit_code, parVars, pars, axisVars, argVars, region, pars_copy,
                   cat_names, invoked, fs, mergeVars>>

\* os.system("rm -f ...")
RemoveTmp ==
    /\ pc = "rm"
    /\ tmp' = NoFile
    /\ k' = k + 1
    /\ pc' = "loop"
    /\ UNCHANGED <<exit_code, parVars, pars, axisVars, argVars, region, pars_copy,
                   cat_names, invoked, fs, mergeVars>>

LoopEnd ==
    /\ pc = "loop"
    /\ k = Len(sources)
    /\ pc' = "merge"
    /\ UNCHANGED <<exit_code, parVars, pars, axisVars, argVars, loopVars, mergeVars>>


-----------------------------------------------------------------------------
(* Merge output catalogues *)

\* the two tests of the loop over the lines of one catalogue
IsHeaderLine(need, line) == need /\ line # <<>> /\ line[1] = "#"
\* the content test on the stripped line
IsContentLine_stripped(line) == LStrip(line) # <<>> /\ LStrip(line)[1] # "#"

IsContentLine(line) == line # <<>> /\ ~IsSpace(line) /\ line[1] # "#"

\* header and content after the lines of one catalogue
RECURSIVE MergeLines(_, _, _, _)
MergeLines(h, c, need, lines) ==
    IF lines = <<>> THEN [header |-> h, content |-> c]
    ELSE MergeLines(IF IsHeaderLine(need, Head(lines)) THEN h \o Head(lines) ELSE h,
                    IF IsContentLine(Head(lines)) THEN c \o Head(lines) ELSE c,
                    need, Tail(lines))

\* a header flag that is never cleared
NeedHeaderAfter_never(need, h) == need

\* if(need_header and header): need_header = False
NeedHeaderAfter(need, h) == IF need /\ h # <<>> THEN FALSE ELSE need

\* if(fmt_plain): a string is true unless it is empty
Truthy(value) == value # <<>>

MergeBegin ==
    /\ pc = "merge"
    /\ IF Len(cat_names) = 0
       THEN /\ pc' = "exit" /\ exit_code' = 0
            /\ UNCHANGED <<header, content, need_header>>
       ELSE IF ~DictHas(pars, KeyDirectory) \/ ~DictHas(pars, KeyCatASCII)
       THEN /\ Uncaught
            /\ UNCHANGED <<header, content, need_header>>
       ELSE IF Truthy(DictGet(pars, KeyCatASCII))
       THEN /\ pc' = "read" /\ UNCHANGED exit_code
            /\ header' = <<>>
            /\ content' = <<>>
            /\ need_header' = TRUE
       ELSE /\ pc' = "exit" /\ exit_code' = 0
            /\ UNCHANGED <<header, content, need_header>>
    /\ UNCHANGED <<parVars, pars, axisVars, argVars, loopVars, m, reads, merged>>

ReadCatalogue ==
    /\ pc = "read"
    /\ m < Len(cat_names)
    /\ LET path == CatPath(DictGet(pars, KeyDirectory), cat_names[m + 1])
       IN  IF path \in DOMAIN fs
           THEN LET r == MergeLines(header, content, need_header, fs[path])
                IN  /\ header' = r.header
                    /\ content' = r.content
                    /\ need_header' = NeedHeaderAfter(need_header, r.header)
                    /\ reads' = Append(reads, path)
                    /\ m' = m + 1
                    /\ UNCHANGED <<pc, exit_code>>
           ELSE /\ exit_error
                /\ UNCHANGED <<header, content, need_header, reads, m>>
    /\ UNCHANGED <<parVars, pars, axisVars, argVars, loopVars, merged>>

\* Create output catalogue
WriteMerged ==
    /\ pc = "read"
    /\ m = Len(cat_names)
    /\ merged' = File(header \o <<"\n">> \o content)
    /\ pc' = "exit"
    /\ exit_code' = 0
    /\ UNCHANGED <<parVars, pars, axisVars, argVars, loopVars, m, reads, header,
                   content, need_header>>

\* open() or write() raises: open() may already have created the file
WriteMergedFail ==
    /\ pc = "read"
    /\ m = Len(cat_names)
    /\ \E created \in BOOLEAN : merged' = IF created THEN File(<<>>) ELSE merged
    /\ exit_error
    /\ UNCHANGED <<parVars, pars, axisVars, argVars, loopVars, m, reads, header,
                   content, need_header>>

-----------------------------------------------------------------------------
(* Inputs *)

MaxSources  == 3
MaxParLines == 3
MaxAxes     == 4
MaxExtent   == 2
MaxRadius   == 1
MaxRuns     == 2
MaxCatLines == 2

\* sequences over S of length lo..hi
SeqsOf(S, lo, hi) == UNION {[1..n -> S] : n \in lo..hi}

\* template parameter files
TemplateFull ==
    << <<"#", " ", "template", "\n">>,
       <<"input.data", " ", "=", " ", "cube", "\n">>,
       <<"\n">>,
       <<"output.directory", "=", "d", "\n">>,
       <<"output.filename", "\t", "=", "\t", "out", " ", "#", " ", "base", "\n">>,
       <<"output.writeCatASCII", " ", "=", " ", "true", "\n">> >>

TemplateBlankName ==
    << <<"input.data", "=", "cube", "\n">>,
       <<"output.directory", "=", "\n">>,
       <<"output.filename", " ", "=", "\n">>,
       <<"output.writeCatASCII", "=", "false", "\n">> >>

TemplateBlankASCII ==
    << <<"input.data", "=", "cube", "\n">>,
       <<"output.directory", "=", "d", "/", "\n">>,
       <<"output.filename", "=", "out", "\n">>,
       <<"output.writeCatASCII", "=", " ", "#", " ", "off", "\n">> >>

TemplateNoName ==
    << <<"input.data", "=", "cube", "\n">>,
       <<"output.directory", "=", "d", "\n">>,
       <<"output.writeCatASCII", "=", "true", "\n">> >>

TemplateNoASCII ==
    << <<"input.data", "=", "cube", "\n">>,
       <<"output.directory", "=", "d", "\n">>,
       <<"output.filename", "=", "out", "\n">> >>

TemplateFiles ==
    {TemplateFull, TemplateBlankName, TemplateBlankASCII, TemplateNoName,
     TemplateNoASCII}

Pix(fl, frac) == [fl |-> fl, frac |-> frac]

Cubes ==
    {[types |-> <<"RA", "DEC", "FREQ">>, size |-> <<4, 4, 3>>],
     [types |-> <<"FREQ", "GLAT", "GLON", "STOKES">>, size |-> <<3, 4, 4, 1>>],
     [types |-> <<"RA", "DEC", "STOKES">>, size |-> <<4, 4, 1>>]}

CatalogueRows ==
    {[id |-> <<"4", "2">>, pix |-> <<Pix(1, FALSE), Pix(2, TRUE), Pix(1, FALSE)>>],
     [id |-> <<"A", " ", "/", "1">>,
      pix |-> <<Pix(2, FALSE), Pix(1, FALSE), Pix(1, TRUE)>>],
     [id |-> <<"x">>, pix |-> <<Pix(-1, FALSE), Pix(1, FALSE), Pix(1, FALSE)>>],
     [id |-> <<"b", "/", "c">>,
      pix |-> <<Pix(1, FALSE), Pix(1, TRUE), Pix(2, FALSE), Pix(0, FALSE)>>],
     [id |-> <<"4", "2">>,
      pix |-> <<Pix(1, FALSE), Pix(4, FALSE), Pix(2, FALSE), Pix(0, FALSE)>>]}

\* the catalogue reader lets through only rows of one column count
Catalogues ==
    {c \in SeqsOf(CatalogueRows, 0, MaxSources) :
        \A a, b \in 1..Len(c) : Len(c[a].pix) = Len(c[b].pix)}

RadiiPairs == {<<1, 1>>, <<2, 1>>}

NoRegion == [x_min |-> 0, x_max |-> 0, y_min |-> 0, y_max |-> 0,
             z_min |-> 0, z_max |-> 0]

\* nothing of the loop or of the merge has happened
LoopFresh ==
    /\ k = 0
    /\ region = NoRegion
    /\ pars_copy = <<>>
    /\ cat_names = <<>>
    /\ tmp = NoFile
    /\ invoked = <<>>
    /\ fs = <<>>

MergeFresh ==
    /\ m = 0
    /\ reads = <<>>
    /\ header = <<>>
    /\ content = <<>>
    /\ need_header = FALSE
    /\ merged = NoFile

\* the script after the WCS is read, before the axis loop
Init ==
    /\ pc = "axes"
    /\ exit_code = -1
    /\ parFile \in TemplateFiles
    /\ fpos = Len(parFile)
    /\ pars = LoadPars(<<>>, parFile)
    /\ \E cube \in Cubes : axis_type = cube.types /\ axis_size = cube.size
    /\ i = 0
    /\ axes = <<-1, -1, -1>>
    /\ sources \in Catalogues
    /\ \E r \in RadiiPairs : radius_spat = r[1] /\ radius_spec = r[2]
    /\ LoopFresh
    /\ MergeFresh

Next ==
    \/ AxisStep
    \/ AxesCheck
    \/ CatalogueCheck
    \/ ComputeRegion
    \/ Skip
    \/ BuildConfig
    \/ WriteTmp
    \/ WriteTmpFail
    \/ RunFinder
    \/ RemoveTmp
    \/ LoopEnd
    \/ MergeBegin
    \/ ReadCatalogue
    \/ WriteMerged
    \/ WriteMergedFail

Spec == Init /\ [][Next]_vars


-----------------------------------------------------------------------------
(* The parameter file reader on its own *)

ParLineSet ==
    {<<"a", "=", "1", "\n">>,
     <<" ", "b", " ", "=", " ", "2", " ", "#", " ", "c", "\n">>,
     <<"#", " ", "a", "=", "1", "\n">>,
     <<" ", "\n">>,
     <<"a", " ", "=", "3", "\n">>,
     <<"b", "=", "\n">>,
     <<"n", "o", "\n">>,
     <<"c", "=", "x", "=", "y", "\n">>,
     <<"\t", "#", "x", "\n">>}

InitPars ==
    /\ pc = "readpars"
    /\ exit_code = -1
    /\ parFile \in SeqsOf(ParLineSet, 0, MaxParLines)
    /\ fpos = 0
    /\ pars = <<>>
    /\ axis_type = <<>>
    /\ axis_size = <<>>
    /\ i = 0
    /\ axes = <<-1, -1, -1>>
    /\ sources = <<>>
    /\ radius_spat = 1
    /\ radius_spec = 1
    /\ LoopFresh
    /\ MergeFresh

NextPars == ParLine \/ ParsCheck

SpecPars == InitPars /\ [][NextPars]_vars

-----------------------------------------------------------------------------
(* The axis loop on its own *)

AxisTypeSet == Spatial1Types \cup Spatial2Types \cup SpectralTypes \cup {"STOKES", "ra"}

InitAxes ==
    /\ pc = "axes"
    /\ exit_code = -1
    /\ parFile = TemplateFull
    /\ fpos = Len(parFile)
    /\ pars = LoadPars(<<>>, parFile)
    /\ axis_type \in SeqsOf(AxisTypeSet, 0, MaxAxes)
    /\ axis_size = [j \in 1..Len(axis_type) |-> 2]
    /\ i = 0
    /\ axes = <<-1, -1, -1>>
    /\ sources = <<>>
    /\ radius_spat = 1
    /\ radius_spec = 1
    /\ LoopFresh
    /\ MergeFresh

NextAxes == AxisStep \/ AxesCheck

SpecAxes == InitAxes /\ [][NextAxes]_vars

-----------------------------------------------------------------------------
(* One source, all radii, positions and extents *)

RadiusSet == -1..MaxRadius
ExtentSet == 1..MaxExtent
PixSet == {Pix(fl, frac) : fl \in -1..MaxExtent, frac \in BOOLEAN}

InitRegion ==
    /\ pc = "loop"
    /\ exit_code = -1
    /\ parFile = TemplateFull
    /\ fpos = Len(parFile)
    /\ pars = LoadPars(<<>>, parFile)
    /\ axis_type = <<"RA", "DEC", "FREQ">>
    /\ axis_size \in [1..3 -> ExtentSet]
    /\ i = 3
    /\ axes = ResolveAxes(axis_type)
    /\ \E pix \in [1..3 -> PixSet] : sources = <<[id |-> <<"4", "2">>, pix |-> pix]>>
    /\ radius_spat \in RadiusSet
    /\ radius_spec \in RadiusSet
    /\ LoopFresh
    /\ MergeFresh

NextRegion == ComputeRegion \/ Skip \/ BuildConfig \/ WriteTmp \/ WriteTmpFail

SpecRegion == InitRegion /\ [][NextRegion]_vars


-----------------------------------------------------------------------------
(* The merge on its own: the loop has run every source of the catalogue *)

IdA == <<"A">>
IdB == <<"B">>
MergeIds == {IdA, IdB}
MergeTemplates == {TemplateFull, TemplateBlankName}

KindSet == {"hash", "data", "blank"}

\* Line number l of the catalogue of the source with id <<tag>>.  A data row on
\* an even line starts with white space and a "#", a blank line on an even line
\* holds white space.
CatLine(kind, tag, l) ==
    CASE kind = "hash"  -> <<"#", tag, Digit[l + 1], "\n">>
      [] kind = "data"  -> IF l % 2 = 1 THEN <<tag, Digit[l + 1], "\n">>
                           ELSE <<" ", "#", tag, Digit[l + 1], "\n">>
      [] kind = "blank" -> IF l % 2 = 1 THEN <<"\n">> ELSE <<" ", "\t", "\n">>

CatFile(kinds, tag) == [l \in 1..Len(kinds) |-> CatLine(kinds[l], tag, l)]

\* what a run left behind: no catalogue, or one with these kinds of lines
Leavings == SeqsOf(KindSet, 0, MaxCatLines) \cup {<<"none">>}

\* a source that was not run left nothing
LeavingsOf(id, ids) ==
    IF \E j \in 1..Len(ids) : ids[j] = id THEN Leavings ELSE {<<"none">>}

\* the output directory with what the run of source id left in it
WithCatalogue(files, id, left) ==
    IF left = <<"none">> THEN files
    ELSE PutFile(files, CatPath(DirOf(pars), OutputName(DictGet(pars, KeyFilename), id)),
                 CatFile(left, id[1]))

InitMerge ==
    /\ pc = "merge"
    /\ exit_code = -1
    /\ parFile \in MergeTemplates
    /\ fpos = Len(parFile)
    /\ pars = LoadPars(<<>>, parFile)
    /\ axis_type = <<"RA", "DEC", "FREQ">>
    /\ axis_size = <<4, 4, 3>>
    /\ i = 3
    /\ axes = ResolveAxes(axis_type)
    /\ radius_spat = 1
    /\ radius_spec = 1
    /\ \E ids \in SeqsOf(MergeIds, 0, MaxRuns) :
         /\ sources = [j \in 1..Len(ids) |->
                          [id |-> ids[j],
                           pix |-> <<Pix(1, FALSE), Pix(2, TRUE), Pix(1, FALSE)>>]]
         /\ \E leftA \in LeavingsOf(IdA, ids), leftB \in LeavingsOf(IdB, ids) :
              fs = WithCatalogue(WithCatalogue(<<>>, IdA, leftA), IdB, leftB)
    /\ k = Len(sources)
    /\ region = IF sources = <<>> THEN NoRegion
                ELSE WorkOutRegion(sources[Len(sources)].pix)
    /\ pars_copy = IF sources = <<>> THEN <<>>
                   ELSE ConfigOffset(ConfigName(ConfigRegion(pars, region),
                                                sources[Len(sources)].id))
    /\ cat_names = [j \in 1..Len(sources) |->
                       OutputName(DictGet(pars, KeyFilename), sources[j].id)]
    /\ tmp = NoFile
    /\ invoked = [j \in 1..Len(sources) |-> [name |-> cat_names[j], status |-> 0]]
    /\ MergeFresh

NextMerge == MergeBegin \/ ReadCatalogue \/ WriteMerged \/ WriteMergedFail

SpecMerge == InitMerge /\ [][NextMerge]_vars


-----------------------------------------------------------------------------
(* Properties of the region and of the source loop *)

\* floor(pixel - r) = floor(pixel) - r and ceil(pixel + r) = ceil(pixel) + r
C1_Lower(p, r) == Max(0, p.fl - r)
C1_Upper(p, r, extent) == Min(extent - 1, p.fl + r + (IF p.frac THEN 1 ELSE 0))

C1_Wide(pix, role, r) ==
    LET a == axes[role] + 1
    IN  C1_Upper(pix[a], r, axis_size[a]) - C1_Lower(pix[a], r) >= r

C1_AllWide(pix) ==
    /\ C1_Wide(pix, 1, radius_spat)
    /\ C1_Wide(pix, 2, radius_spat)
    /\ C1_Wide(pix, 3, radius_spec)

\* C1: with lower = max(0, floor(pixel - r)) and upper = min(extent - 1,
\* ceil(pixel + r)) on each role axis, a source is accepted exactly when
\* upper - lower >= r on all three axes and skipped exactly when upper - lower < r
\* on some axis: a source being configured or run is wide on all axes, and
\* between sources the number of accepted ones is the number of wide ones.
C1_AcceptedIffWide ==
    /\ pc \in {"write", "run", "rm"} => C1_AllWide(sources[k + 1].pix)
    /\ pc = "loop" =>
          Len(cat_names) = Cardinality({j \in 1..k : C1_AllWide(sources[j].pix)})

\* a source accepted with its first spatial window cut by the cube edge to
\* exactly the radius
C1_Witness ==
    /\ pc = "write"
    /\ radius_spat >= 1
    /\ region.x_max - region.x_min = radius_spat
    /\ region.x_max < Ceil(PixPlus(sources[k + 1].pix[axes[1] + 1], radius_spat))

C10_AxisInside(lo, hi, role) ==
    0 <= lo /\ lo <= hi /\ hi <= axis_size[axes[role] + 1] - 1

\* C10: every region that is accepted and written to input.region for the
\* external finder has 0 <= min <= max <= extent - 1 on the two spatial axes and
\* on the spectral axis, for all integer radii.
C10_WrittenRegionInsideCube ==
    (pc = "run" /\ tmp.exists) =>
        /\ DictGet(pars_copy, KeyRegion) = RegionText(region)
        /\ C10_AxisInside(region.x_min, region.x_max, 1)
        /\ C10_AxisInside(region.y_min, region.y_max, 2)
        /\ C10_AxisInside(region.z_min, region.z_max, 3)

RECURSIVE C2_Expected(_)
C2_Expected(srcs) ==
    IF srcs = <<>> THEN <<>>
    ELSE (IF C1_AllWide(Head(srcs).pix)
          THEN <<OutputName(DictGet(pars, KeyFilename), Head(srcs).id)>>
          ELSE <<>>) \o C2_Expected(Tail(srcs))

C2_LoopDone ==
    \/ pc \in {"merge", "read"}
    \/ pc = "exit" /\ sources # <<>> /\ k = Len(sources)

\* C2: when the source loop completes, the finder has been invoked exactly once
\* for each accepted source, in catalogue order, and never for a rejected one,
\* whatever the exit statuses were, and cat_names holds one output name per
\* invocation in that order.
C2_OneRunPerAcceptedSource ==
    C2_LoopDone =>
        /\ cat_names = C2_Expected(sources)
        /\ Len(invoked) = Len(cat_names)
        /\ \A j \in 1..Len(invoked) : invoked[j].name = cat_names[j]

\* three sources: a run that failed, a skipped source, a later run
C2_Witness ==
    /\ pc = "merge"
    /\ Len(sources) = 3
    /\ Len(invoked) = 2
    /\ invoked[1].status # 0
    /\ ~C1_AllWide(sources[2].pix)

C3_Disabled == DictHas(pars, KeyCatASCII) /\ DictGet(pars, KeyCatASCII) = <<"false">>

\* C3: the merge is a no-op and not an error (no catalogue read, no merged file
\* written, exit status 0) whenever no source was run or output.writeCatASCII is
\* set to false.
C3_MergeNoOpWhenDisabled ==
    (cat_names = <<>> \/ C3_Disabled) =>
        /\ pc # "read"
        /\ reads = <<>>
        /\ ~merged.exists
        /\ (pc = "exit" /\ sources # <<>> /\ k = Len(sources)) => exit_code = 0

\* C6: the transient parameter file exists only between its write and the end
\* of the same source's run; it is absent between sources, when the merge
\* starts, and whenever the process has ended, on normal and fatal exits.
C6_TmpOnlyDuringRun == tmp.exists => pc \in {"run", "rm"}

C7_Sanitized(id) ==
    [j \in 1..Len(id) |->
        IF id[j] = " " THEN "_" ELSE IF id[j] = "/" THEN "-" ELSE id[j]]

C7_Name(id) ==
    LET base == DictGet(LoadPars(<<>>, parFile), KeyFilename)
    IN  (IF base = <<>> THEN <<"optifind">> ELSE base) \o <<"_">> \o C7_Sanitized(id)

\* C7: for every accepted source, at any position of the catalogue, the per-run
\* output.filename is the template's value (or "optifind" when blank) + "_" +
\* sanitized id, derived from the unmodified template: the template settings
\* stay what the parameter file gave, and every other template key reaches the
\* run unchanged.
C7_NameFromTemplate ==
    /\ pars = LoadPars(<<>>, parFile)
    /\ pc \in {"write", "run", "rm"} =>
          /\ DictGet(pars_copy, KeyFilename) = C7_Name(sources[k + 1].id)
          /\ cat_names[Len(cat_names)] = C7_Name(sources[k + 1].id)
          /\ DictGet(pars_copy, KeyRegion) = RegionText(region)
          /\ DictGet(pars_copy, KeyOffset) = <<"true">>
          /\ \A j \in 1..Len(pars) :
                pars[j].key \notin {KeyFilename, KeyRegion, KeyOffset} =>
                    pars_copy[j] = pars[j]
    /\ pc = "rm" => invoked[Len(invoked)].name = C7_Name(sources[k + 1].id)

\* a later run, of a source whose id needs sanitizing, under a blank template name
C7_Witness ==
    /\ pc = "run"
    /\ Len(invoked) >= 1
    /\ Contains(sources[k + 1].id, "/")
    /\ Contains(sources[k + 1].id, " ")
    /\ DictGet(pars, KeyFilename) = <<>>


-----------------------------------------------------------------------------
(* Properties of the axis resolution *)

C8_Spatial1 == {"RA", "GLON"}
C8_Spatial2 == {"DEC", "GLAT"}
C8_Spectral == {"FREQ", "VELO", "VRAD", "VOPT", "FELO"}

\* the last axis whose label is in the vocabulary, -1 when there is none
C8_Last(vocabulary) ==
    LET S == {j \in 0..(Len(axis_type) - 1) : axis_type[j + 1] \in vocabulary}
    IN  IF S = {} THEN -1 ELSE CHOOSE j \in S : \A h \in S : h <= j

\* C8: axis resolution either aborts before any source is processed, when some
\* role has no label of its vocabulary, or yields three pairwise distinct axis
\* indices, each role being the last axis whose label is in the role's
\* vocabulary; the mapping is a function of the label sequence alone.
C8_DistinctLastMatch ==
    pc \in {"catalogue", "exit"} =>
        LET a == <<C8_Last(C8_Spatial1), C8_Last(C8_Spatial2), C8_Last(C8_Spectral)>>
        IN  IF a[1] = -1 \/ a[2] = -1 \/ a[3] = -1
            THEN /\ pc = "exit"
                 /\ exit_code = 1
                 /\ k = 0
                 /\ cat_names = <<>>
                 /\ invoked = <<>>
            ELSE /\ pc = "catalogue"
                 /\ axes = a
                 /\ axes[1] # axes[2] /\ axes[1] # axes[3] /\ axes[2] # axes[3]

\* a resolved cube with two axes of the first spatial family: the later one wins
C8_Witness ==
    /\ pc = "catalogue"
    /\ \E j \in 1..Len(axis_type) :
          /\ axis_type[j] \in C8_Spatial1
          /\ j - 1 < axes[1]

-----------------------------------------------------------------------------
(* Properties of the parameter file reader *)

\* a key=value line: its first non-blank character is not "#", and it holds "="
C9_WellFormed(line) ==
    /\ \E j \in 1..Len(line) :
          /\ line[j] \notin WhiteSpace
          /\ line[j] # "#"
          /\ \A h \in 1..(j - 1) : line[h] \in WhiteSpace
    /\ \E j \in 1..Len(line) : line[j] = "="

C9_Lines == SelectSeq(parFile, C9_WellFormed)
C9_Keys == [j \in 1..Len(C9_Lines) |-> LineKey(C9_Lines[j])]
C9_Loaded == pc \in {"wcs", "exit"}

\* C9 as stated: a template with N well-formed key=value lines loads into
\* exactly N entries, in the order of the lines.
C9_OneEntryPerLine ==
    C9_Loaded =>
        /\ Len(pars) = Len(C9_Lines)
        /\ \A j \in 1..Len(pars) : pars[j].key = C9_Keys[j]

RECURSIVE C9_FirstOccurrences(_, _)
C9_FirstOccurrences(keys, seen) ==
    IF keys = <<>> THEN <<>>
    ELSE IF Head(keys) \in seen THEN C9_FirstOccurrences(Tail(keys), seen)
    ELSE <<Head(keys)>> \o C9_FirstOccurrences(Tail(keys), seen \cup {Head(keys)})

C9_LastValue(key) ==
    LET S == {j \in 1..Len(C9_Lines) : C9_Keys[j] = key}
    IN  LineValue(C9_Lines[CHOOSE j \in S : \A h \in S : h <= j])

C9_KeysDistinct ==
    \A a, b \in 1..Len(C9_Keys) : a # b => C9_Keys[a] # C9_Keys[b]

\* C9 amended: the loaded configuration has one entry per distinct key of the
\* well-formed lines, in the order of the keys' first lines, each with the value
\* of the key's last line; so N lines with pairwise distinct keys give exactly N
\* entries in file order.
C9_OneEntryPerKey ==
    C9_Loaded =>
        /\ [j \in 1..Len(pars) |-> pars[j].key] = C9_FirstOccurrences(C9_Keys, {})
        /\ \A j \in 1..Len(pars) : pars[j].value = C9_LastValue(pars[j].key)
        /\ C9_KeysDistinct =>
              /\ Len(pars) = Len(C9_Lines)
              /\ \A j \in 1..Len(pars) : pars[j].key = C9_Keys[j]

\* three well-formed lines, two of them for one key, loaded into two entries
C9_Witness ==
    /\ pc = "wcs"
    /\ Len(C9_Lines) = 3
    /\ Len(pars) = 2

-----------------------------------------------------------------------------
(* Properties of the merge *)

\* the catalogues of the runs, in processing order
C4_Files ==
    [j \in 1..Len(cat_names) |-> fs[CatPath(DictGet(pars, KeyDirectory), cat_names[j])]]

C4_AllRead == pc \in {"read", "exit"} /\ m > 0 /\ m = Len(cat_names)
C4_Written == pc = "exit" /\ exit_code = 0 /\ merged.exists

C4_IsHash(line) == line # <<>> /\ line[1] = "#"

RECURSIVE C4_Flatten(_)
C4_Flatten(lines) ==
    IF lines = <<>> THEN <<>> ELSE Head(lines) \o C4_Flatten(Tail(lines))

RECURSIVE C4_LeadingRun(_)
C4_LeadingRun(lines) ==
    IF lines # <<>> /\ C4_IsHash(Head(lines))
    THEN <<Head(lines)>> \o C4_LeadingRun(Tail(lines))
    ELSE <<>>

\* the text cut into lines, each with its line end
RECURSIVE C4_SplitLines(_, _)
C4_SplitLines(text, line) ==
    IF text = <<>> THEN (IF line = <<>> THEN <<>> ELSE <<line>>)
    ELSE IF Head(text) = "\n"
    THEN <<Append(line, "\n")>> \o C4_SplitLines(Tail(text), <<>>)
    ELSE C4_SplitLines(Tail(text), Append(line, Head(text)))

\* the first catalogue with a "#"-prefixed line, <<>> when no catalogue has one
C4_FirstWithHash ==
    LET S == {j \in 1..Len(C4_Files) : SelectSeq(C4_Files[j], C4_IsHash) # <<>>}
    IN  IF S = {} THEN <<>> ELSE C4_Files[CHOOSE j \in S : \A h \in S : j <= h]

\* C4 as stated: the merged header is exactly the run of leading "#"-prefixed
\* lines of the first catalogue that has a "#"-prefixed line; "#" lines after a
\* data row of that catalogue, and all "#" lines of later catalogues, are not in
\* the merged catalogue.
C4_HeaderIsLeadingRun ==
    /\ C4_AllRead => header = C4_Flatten(C4_LeadingRun(C4_FirstWithHash))
    /\ C4_Written =>
          SelectSeq(C4_SplitLines(merged.text, <<>>), C4_IsHash)
              = C4_LeadingRun(C4_FirstWithHash)

\* C4 amended: the merged header is exactly the "#"-prefixed lines of the first
\* catalogue that has one, all of them, in their order, those after a data row
\* included; no "#" line of a later catalogue is in the merged catalogue, so
\* the header block is there at most once.
C4_HeaderIsFirstFilesHashLines ==
    /\ C4_AllRead => header = C4_Flatten(SelectSeq(C4_FirstWithHash, C4_IsHash))
    /\ C4_Written =>
          SelectSeq(C4_SplitLines(merged.text, <<>>), C4_IsHash)
              = SelectSeq(C4_FirstWithHash, C4_IsHash)

\* two catalogues merged: the first has a "#" line after a data row, the second
\* has "#" lines of its own
C4_Witness ==
    /\ C4_Written
    /\ Len(cat_names) = 2
    /\ cat_names[1] # cat_names[2]
    /\ Len(C4_Files[1]) = 2
    /\ ~C4_IsHash(C4_Files[1][1])
    /\ C4_IsHash(C4_Files[1][2])
    /\ SelectSeq(C4_Files[2], C4_IsHash) # <<>>

\* a data row: not "#"-prefixed, not blank
C5_IsRow(line) ==
    /\ line[1] # "#"
    /\ \E j \in 1..Len(line) : line[j] \notin WhiteSpace

RECURSIVE C5_Body(_)
C5_Body(files) ==
    IF files = <<>> THEN <<>>
    ELSE C4_Flatten(SelectSeq(Head(files), C5_IsRow)) \o C5_Body(Tail(files))

\* C5: with all catalogues readable, the body of the merged catalogue is the
\* concatenation, over the runs in processing order, of each catalogue's
\* non-blank, non-"#" lines in their order, nothing dropped, added or reordered,
\* and it is written after the header block and one blank line.
C5_BodyIsConcatenation ==
    /\ C4_AllRead => content = C5_Body(C4_Files)
    /\ C4_Written => merged.text = header \o <<"\n">> \o C5_Body(C4_Files)

\* two different catalogues merged, each with a data row, with a blank line
\* and a header line among their lines
C5_Witness ==
    /\ C4_Written
    /\ Len(cat_names) = 2
    /\ cat_names[1] # cat_names[2]
    /\ \A j \in 1..2 : SelectSeq(C4_Files[j], C5_IsRow) # <<>>
    /\ \E l \in 1..Len(C4_Files[1]) : IsSpace(C4_Files[1][l])
    /\ header # <<>>

=============================================================================
